---- MODULE Spec2Model ----
(***************************************************************************)
(* Model of the two-phase CP-SAT scheduling engine of                      *)
(* scheduling_logic.py (run_schedule_optimization), of the result          *)
(* projection that follows the two solves, and of the handlers of app.py   *)
(* and graph_scheduler.py that collect availability, save and publish the  *)
(* schedule and reset the week in Teams.                                   *)
(*                                                                         *)
(* Hours are kept in thousandths of an hour (9000 is 9.0, 7250 is 7.25),   *)
(* so that int(hours * SCALE) and the two-decimal label format are real    *)
(* conversions that lose information.  The CP-SAT solver is modelled by    *)
(* its contract: a solve ends with a status and, for OPTIMAL and FEASIBLE, *)
(* with a solution taken from the feasible set of the model as built.      *)
(***************************************************************************)
EXTENDS Integers, Sequences, FiniteSets, TLC

\* ------------------------------------------------------------------ bounds
\* Students in a call, rows in the calendar, (student, row) pairs in a call
\* and students with an override cap.
MaxStudents == 3
MaxShifts == 3
MaxPairs == 4
MaxOverrides == 1
\* (student, row) pairs of a call that is made twice.
MaxRerunPairs == 2
\* (student, row) pairs of two calls that run at the same time, together.
MaxTwoCallPairs == 2

\* ------------------------------------------------------- program constants
MAX_WEEKLY_HOURS == 20
SCALE == 100

\* The shift table: (day, start, end, required).  The shipped table has 26
\* rows; a deployment edits it.  A calendar of the model is a run of at most
\* MaxShifts consecutive rows of this table.
ShiftTable ==
    << <<"Mon", 9000, 12000, 1>>, <<"Tue", 9000, 12000, 1>>,
       <<"Fri", 15000, 17000, 0>>, <<"Sat", 8000, 20000, 1>>,
       <<"Sun", 8000, 20000, 1>>, <<"Sun", 20333, 22000, 2>> >>

\* Names the availability builders hand over, in row order (not sorted).
StudentNames == <<"bea", "al", "cy", "di", "ed">>

\* Lexicographic rank of a name, as Python's sorted() orders str.
NameRank(n) ==
    CASE n = "al" -> 1 [] n = "bea" -> 2 [] n = "cy" -> 3 [] n = "di" -> 4
      [] OTHER -> 5

\* 'Max Hours' values a submission can carry, in thousandths of an hour.
CapValues == {0 - 1000, 2000, 30000}

VARIABLES SHIFTS_CONFIG, students, availability_matrix, student_max_hours,
          pc, x, status, best_coverage, coverage_locked, status2,
          solution, result,
          first_run, other,
          csv_file, request, submitted,
          schedule_logs, session_week, upload, publish_answer,
          teams, display_schedule, user_map, regen, graph_log,
          reset, passes

vars == <<SHIFTS_CONFIG, students, availability_matrix, student_max_hours,
          pc, x, status, best_coverage, coverage_locked, status2,
          solution, result,
          first_run, other,
          csv_file, request, submitted,
          schedule_logs, session_week, upload, publish_answer,
          teams, display_schedule, user_map, regen, graph_log,
          reset, passes>>

\* The state of the web handlers of app.py, which no step of
\* run_schedule_optimization touches.
submitVars == <<csv_file, request, submitted>>

publishVars == <<schedule_logs, session_week, upload, publish_answer>>

\* The Shifts schedule of the team in Teams, the call of
\* regenerate_weekly_schedule and the request to /reset-teams-schedule.
regenVars == <<display_schedule, user_map, regen, graph_log>>

resetVars == <<reset, passes>>

graphVars == <<teams, regenVars, resetVars>>

handlerVars == <<submitVars, publishVars, graphVars>>

\* ----------------------------------------------------------------- helpers
Range(s) == {s[n] : n \in DOMAIN s}

Max2(a, b) == IF a >= b THEN a ELSE b

Min2(a, b) == IF a <= b THEN a ELSE b

\* int(v) of Python for a value given in thousandths: truncation toward 0.
TruncDiv1000(v) == IF v >= 0 THEN v \div 1000 ELSE 0 - ((0 - v) \div 1000)

\* int(hours * SCALE)
ToScaled(h) == TruncDiv1000(h * SCALE)

\* dict.get(key, default)
DictGet(d, k, default) == IF k \in DOMAIN d THEN d[k] ELSE default

RECURSIVE SumSeq(_)
SumSeq(s) == IF s = <<>> THEN 0 ELSE Head(s) + SumSeq(Tail(s))

RECURSIVE SetMax(_)
SetMax(S) ==
    LET e == CHOOSE e \in S : TRUE
    IN  IF S = {e} THEN e ELSE Max2(e, SetMax(S \ {e}))

RECURSIVE SetMin(_)
SetMin(S) ==
    LET e == CHOOSE e \in S : TRUE
    IN  IF S = {e} THEN e ELSE Min2(e, SetMin(S \ {e}))

\* Optional values: Python's None against a present value.
None == [is_none |-> TRUE]

Some(v) == [is_none |-> FALSE, value |-> v]

\* --------------------------------------------------------- shifts_with_id
ShiftId(s) == <<s[1], s[2], s[3]>>

ShiftLength(s) == s[3] - s[2]

Required(s) == s[4]

ShiftIds(cal) == {ShiftId(cal[n]) : n \in DOMAIN cal}

\* total_required, then int(total_required * SCALE)
TotalRequired(cal) ==
    SumSeq([n \in DOMAIN cal |-> Required(cal[n]) * ShiftLength(cal[n])])

\* -------------------------------------------------------------- the inputs
Calendars ==
    {SubSeq(ShiftTable, a, b) :
        a \in 1..Len(ShiftTable),
        b \in 1..Len(ShiftTable)} \ {<<>>}

BoundedCalendars == {c \in Calendars : Len(c) <= MaxShifts}

StudentLists == {SubSeq(StudentNames, 1, n) : n \in 0..MaxStudents}

\* An availability lookup: student -> (shift_id -> 0/1).  A dense row holds
\* every shift (both builders of the application write such rows); a sparse
\* row holds only the shifts the student is available for.  Students differ
\* only in name and position, so the sparse row is the first student's.
AvailabilityMatrices(S, cal) ==
    { [i \in Range(S) |->
         [sid \in {id \in ShiftIds(cal) :
                     dense \/ i # S[1] \/ <<id, i>> \in ones} |->
             IF <<sid, i>> \in ones THEN 1 ELSE 0]] :
      ones \in SUBSET (ShiftIds(cal) \X Range(S)), dense \in BOOLEAN }

\* student_max_hours: None (Excel path) or a dict of overrides.  Students
\* differ only in name and position, so the overrides are given to the first
\* students of the list.
CapMaps(S) ==
    {None} \cup
    UNION { {Some(m) : m \in [Range(SubSeq(S, 1, k)) -> CapValues]} :
            k \in 0..Min2(MaxOverrides, Len(S)) }

\* ------------------------------------------------ the constraint model
\* x: one Boolean variable per (shift_id, student) with availability 1.
\* An assignment is the set of the variables of x that are 1.
DecisionVarsAnyPresent(S, cal, avail) ==
    {p \in ShiftIds(cal) \X Range(S) : p[1] \in DOMAIN avail[p[2]]}

DecisionVarsInverted(S, cal, avail) ==
    {p \in ShiftIds(cal) \X Range(S) : DictGet(avail[p[2]], p[1], 0) = 0}

DecisionVars(S, cal, avail) ==
    {p \in ShiftIds(cal) \X Range(S) : DictGet(avail[p[2]], p[1], 0) = 1}

\* coverage[shift_id] == sum(shift_vars)
Coverage(a, sid, S) == Cardinality({i \in Range(S) : <<sid, i>> \in a})

\* the coverage_hours term of one calendar row (rows with required > 0)
CoverageHours(a, s, S) == Coverage(a, ShiftId(s), S) * ToScaled(ShiftLength(s))

CoverageHoursMeetsRequired(a, s, S) ==
    Required(s) > 0 =>
        CoverageHours(a, s, S) = ToScaled(ShiftLength(s)) * Required(s)

\* NewIntVar(0, shift_hours * required): the domain of coverage_hours
CoverageHoursInDomain(a, s, S) ==
    Required(s) > 0 =>
        /\ 0 <= CoverageHours(a, s, S)
        /\ CoverageHours(a, s, S) <= ToScaled(ShiftLength(s)) * Required(s)

CoverageSumAllRows(a, S, cal) ==
    SumSeq([n \in DOMAIN cal |-> CoverageHours(a, cal[n], S)])

\* coverage_sum == sum(coverage_terms)
CoverageSum(a, S, cal) ==
    SumSeq([n \in DOMAIN cal |->
              IF Required(cal[n]) > 0 THEN CoverageHours(a, cal[n], S) ELSE 0])

\* NewIntVar(0, int(total_required * SCALE)): the domain of coverage_sum
CoverageSumInDomain(a, S, cal) ==
    /\ 0 <= CoverageSum(a, S, cal)
    /\ CoverageSum(a, S, cal) <= ToScaled(TotalRequired(cal))

GlobalMaxScaled == MAX_WEEKLY_HOURS * SCALE

\* per_student_max
PerStudentMax(i, caps) ==
    IF ~caps.is_none /\ caps.value # <<>> /\ i \in DOMAIN caps.value
    THEN ToScaled(caps.value[i])
    ELSE GlobalMaxScaled

\* total_hours[i] == sum(student_hour_terms)
TotalHours(a, i, cal) ==
    SumSeq([n \in DOMAIN cal |->
              IF <<ShiftId(cal[n]), i>> \in a
              THEN ToScaled(ShiftLength(cal[n])) ELSE 0])

\* NewIntVar(0, per_student_max) and total_hours[i] <= per_student_max
HourCapHolds(a, i, cal, caps) ==
    /\ 0 <= TotalHours(a, i, cal)
    /\ TotalHours(a, i, cal) <= PerStudentMax(i, caps)

\* Every constraint of the model as it stands when Phase 1 is solved.
SatisfiesModel(a, S, cal, caps) ==
    /\ \A n \in DOMAIN cal : CoverageHoursInDomain(a, cal[n], S)
    /\ CoverageSumInDomain(a, S, cal)
    /\ \A i \in Range(S) : HourCapHolds(a, i, cal, caps)

FeasiblePhase1(xs, S, cal, caps) ==
    {a \in SUBSET xs : SatisfiesModel(a, S, cal, caps)}

OptimalPhase1Minimized(xs, S, cal, caps) ==
    LET F == FeasiblePhase1(xs, S, cal, caps)
        least == SetMin({CoverageSum(a, S, cal) : a \in F})
    IN  IF F = {} THEN {} ELSE {a \in F : CoverageSum(a, S, cal) = least}

\* model.Maximize(coverage_sum): the optimal solutions of Phase 1
OptimalPhase1(xs, S, cal, caps) ==
    LET F == FeasiblePhase1(xs, S, cal, caps)
        best == SetMax({CoverageSum(a, S, cal) : a \in F})
    IN  IF F = {} THEN {} ELSE {a \in F : CoverageSum(a, S, cal) = best}

\* fairness_term = max_hours_scaled - min_hours_scaled
MaxHoursScaled(a, S, cal) == SetMax({TotalHours(a, i, cal) : i \in Range(S)})

MinHoursScaled(a, S, cal) == SetMin({TotalHours(a, i, cal) : i \in Range(S)})

FairnessTerm(a, S, cal) == MaxHoursScaled(a, S, cal) - MinHoursScaled(a, S, cal)

\* NewIntVar(0, fairness_upper_bound) of max_hours_scaled / min_hours_scaled
FairnessVarsInDomain(a, S, cal) ==
    /\ 0 <= MaxHoursScaled(a, S, cal)
    /\ MaxHoursScaled(a, S, cal) <= GlobalMaxScaled
    /\ 0 <= MinHoursScaled(a, S, cal)
    /\ MinHoursScaled(a, S, cal) <= GlobalMaxScaled

\* The model of Phase 2: Phase 1's constraints, the coverage lock and the
\* max/min equalities over the students' total hours.
FeasiblePhase2(xs, S, cal, caps, best) ==
    {a \in FeasiblePhase1(xs, S, cal, caps) :
        /\ CoverageSum(a, S, cal) = best
        /\ FairnessVarsInDomain(a, S, cal)}

OptimalPhase2AnyFeasible(xs, S, cal, caps, best) ==
    FeasiblePhase2(xs, S, cal, caps, best)

\* model.Minimize(fairness_term): the optimal solutions of Phase 2
OptimalPhase2(xs, S, cal, caps, best) ==
    LET F == FeasiblePhase2(xs, S, cal, caps, best)
        least == SetMin({FairnessTerm(a, S, cal) : a \in F})
    IN  IF F = {} THEN {} ELSE {a \in F : FairnessTerm(a, S, cal) = least}

\* ------------------------------------------------------------ the solver
\* A solve leaves a response in the solver: a status and, when a solution
\* was found, the values of the variables.
NoSolution == [has |-> FALSE]

Solution(a) == [has |-> TRUE, ones |-> a]

HasSolutionOnlyOptimal(st) == st = "OPTIMAL"

HasSolution(st) == st \in {"OPTIMAL", "FEASIBLE"}

ModelValidNeedsStudents(S, cal, caps) ==
    /\ S # <<>>
    /\ ToScaled(TotalRequired(cal)) >= 0
    /\ \A i \in Range(S) : PerStudentMax(i, caps) >= 0

\* A variable declared over an empty domain (NewIntVar(0, ub) with ub < 0)
\* makes the model invalid; with the shift table fixed this can only be a
\* student's total_hours.
ModelValid(S, cal, caps) ==
    /\ ToScaled(TotalRequired(cal)) >= 0
    /\ \A i \in Range(S) : PerStudentMax(i, caps) >= 0

\* CpSolver.Solve with max_time_in_seconds = 10: MODEL_INVALID for a model
\* that fails validation; otherwise a proven optimum, the best solution
\* found when the budget ends, no solution when the budget ends, or a proof
\* that the model has none.
SolveOutcomes(valid, F, Opt) ==
    IF ~valid THEN {<<"MODEL_INVALID", NoSolution>>}
    ELSE {<<"OPTIMAL", Solution(a)>> : a \in Opt} \cup
         {<<"FEASIBLE", Solution(a)>> : a \in F} \cup
         {<<"UNKNOWN", NoSolution>>} \cup
         (IF F = {} THEN {<<"INFEASIBLE", NoSolution>>} ELSE {})

\* ------------------------------------------------- the result projector
\* f"{v:.2f}": the value rounded to hundredths (no row of ShiftTable lies on
\* a rounding tie).
Fmt2(t) == (t + 5) \div 10

\* shift_key = f"{day} {start:.2f}-{end:.2f}"
ShiftKey(s) == <<s[1], Fmt2(s[2]), Fmt2(s[3])>>

\* is_assigned = (shift_id, i) in x and solver.BooleanValue(x[shift_id, i])
IsAssigned(xs, values, sid, i) == <<sid, i>> \in xs /\ <<sid, i>> \in values

\* assigned_students of one calendar row, in the order of students
AssignedStudents(xs, values, s, S) ==
    SelectSeq(S, LAMBDA i : IsAssigned(xs, values, ShiftId(s), i))

\* ", ".join(names), as the sequence of its pieces
RECURSIVE JoinNames(_)
JoinNames(names) ==
    IF Len(names) <= 1 THEN names
    ELSE <<Head(names), ", ">> \o JoinNames(Tail(names))

ScheduleItemCountsAvailable(xs, values, s, S) ==
    LET assigned == AssignedStudents(xs, values, s, S)
    IN  [required |-> Required(s),
         assigned_count |-> Coverage(xs, ShiftId(s), S),
         assigned_students |->
             IF assigned # <<>> THEN JoinNames(assigned) ELSE <<"UNSTAFFED">>]

\* schedule[shift_key] = {...} for one calendar row
ScheduleItem(xs, values, s, S) ==
    LET assigned == AssignedStudents(xs, values, s, S)
    IN  [required |-> Required(s),
         assigned_count |-> Len(assigned),
         assigned_students |->
             IF assigned # <<>> THEN JoinNames(assigned) ELSE <<"UNSTAFFED">>]

\* The row whose item the dict holds under a key once the loop has ended:
\* a later row with the same key overwrites an earlier one.
LastRowWithKey(cal, key) ==
    CHOOSE n \in DOMAIN cal :
        /\ ShiftKey(cal[n]) = key
        /\ \A m \in DOMAIN cal : ShiftKey(cal[m]) = key => m <= n

DisplayScheduleReversed(xs, values, S, cal) ==
    [n \in DOMAIN cal |->
        LET s == cal[Len(cal) + 1 - n]
            item == ScheduleItem(xs, values, s, S)
        IN  [shift |-> ShiftKey(s),
             required |-> item.required,
             assigned_count |-> item.assigned_count,
             assigned_students |-> item.assigned_students]]

\* display_schedule: for each calendar row, schedule.get(shift_key) with
\* item['shift'] set
DisplaySchedule(xs, values, S, cal) ==
    [n \in DOMAIN cal |->
        LET key == ShiftKey(cal[n])
            item == ScheduleItem(xs, values, cal[LastRowWithKey(cal, key)], S)
        IN  [shift |-> key,
             required |-> item.required,
             assigned_count |-> item.assigned_count,
             assigned_students |-> item.assigned_students]]

\* final_student_hours[i] += current_shift_length (real hours)
FinalStudentHours(xs, values, S, cal) ==
    [i \in Range(S) |->
        SumSeq([n \in DOMAIN cal |->
                  IF IsAssigned(xs, values, ShiftId(cal[n]), i)
                  THEN ShiftLength(cal[n]) ELSE 0])]

\* shift_keys: each key once, in the order of its first row
RECURSIVE ShiftKeys(_)
ShiftKeys(cal) ==
    IF cal = <<>> THEN <<>>
    ELSE LET front == ShiftKeys(SubSeq(cal, 1, Len(cal) - 1))
             key == ShiftKey(cal[Len(cal)])
         IN  IF key \in Range(front) THEN front ELSE Append(front, key)

SortedKeepsOrder(S) == S

\* sorted(students)
RECURSIVE Sorted(_)
Sorted(S) ==
    IF S = <<>> THEN <<>>
    ELSE LET least == CHOOSE k \in DOMAIN S :
                         \A m \in DOMAIN S : NameRank(S[k]) <= NameRank(S[m])
         IN  <<S[least]>> \o
             Sorted(SubSeq(S, 1, least - 1) \o SubSeq(S, least + 1, Len(S)))

\* visual_assignments[i][shift_key] = 1 if is_assigned else 0
VisualAssignments(xs, values, S, cal) ==
    [i \in Range(S) |->
        [key \in {ShiftKey(cal[n]) : n \in DOMAIN cal} |->
            IF IsAssigned(xs, values, ShiftId(cal[LastRowWithKey(cal, key)]), i)
            THEN 1 ELSE 0]]

VisualGridData(xs, values, S, cal) ==
    [students |-> Sorted(S),
     shift_keys |-> ShiftKeys(cal),
     assignments |-> VisualAssignments(xs, values, S, cal)]

\* return display_schedule, final_student_hours, visual_grid_data
ResultTriple(xs, values, S, cal) ==
    <<Some(DisplaySchedule(xs, values, S, cal)),
      Some(FinalStudentHours(xs, values, S, cal)),
      Some(VisualGridData(xs, values, S, cal))>>

SentinelMixed == <<None, Some(<<>>), None>>

\* return None, None, None
Sentinel == <<None, None, None>>

NotReturned == <<>>

\* What is kept of an earlier call on the same inputs: nothing yet.
NoRun == [ran |-> FALSE]

\* The locals of a second call that runs at the same time: no such call.
NoCall == [pc |-> "none"]

\* ------------------------------------------- the web handlers (app.py)
\* Requests to /submit-availability that the server handles, one thread each.
MaxRequests == 2

\* CWIDs as they are after .strip(); "" is a missing or blank CWID.
CWIDs == {"c1", "c2"}

\* data.get('shifts', []): the shift keys a student ticked.
ShiftSelections == {<<>>, <<"Mon|9-12">>, <<"Mon|9-12", "Tue|9-12">>}

\* A request slot nobody has used yet.
NoRequest == [pc |-> "idle"]

\* The row of one submission: the CWID column and the columns built from the
\* selection (csv.DictWriter writes them as text and csv.DictReader reads the
\* same text back, so a row survives the rewrite of the file unchanged).
Row(cwid, shifts) == [CWID |-> cwid, Days |-> shifts]

\* existing_rows = [r for r in reader if r.get('CWID') != cwid]; a file that
\* is missing, or that a writer has truncated and not yet written, has no
\* rows.
ExistingRows(file, cwid) ==
    IF file.is_none THEN <<>>
    ELSE SelectSeq(file.value, LAMBDA r : r.CWID # cwid)

\* No request to /submit-availability has arrived: no availability file.
SubmitIdle ==
    /\ csv_file = None
    /\ request = [r \in 1..MaxRequests |-> NoRequest]
    /\ submitted = <<>>

\* Weeks (their Mondays) an owner can select.
Weeks == {"w1", "w2"}

\* No POST of upload_file is in progress.
NoUpload == [pc |-> "none"]

\* No request to /publish-to-teams has been answered.  The field turn flips
\* with every answer, so that two equal answers in a row are two steps.
NoAnswer == [turn |-> 0, week |-> None, code |-> 0, pushed |-> None]

\* schedule_logs/ is empty, the session has no selected week and no request
\* to / or /publish-to-teams has arrived.
PublishIdle ==
    /\ schedule_logs = [w \in Weeks |-> None]
    /\ session_week = None
    /\ upload = NoUpload
    /\ publish_answer = NoAnswer

\* Shifts of the selected week that the team's schedule holds before a
\* handler runs: assigned ones and open ones.
MaxTeamsShifts == 1

\* The schedule holds shifts and open_shifts older entries of the week, and
\* the entries the handlers created since.
TeamsSchedule(shifts, open_shifts) ==
    [shifts |-> shifts, open_shifts |-> open_shifts,
     new_shifts |-> <<>>, new_open_shifts |-> <<>>]

\* No call of regenerate_weekly_schedule and no request to
\* /reset-teams-schedule: the week is empty in Teams.
GraphIdle ==
    /\ teams = TeamsSchedule(0, 0)
    /\ display_schedule = <<>>
    /\ user_map = {}
    /\ regen = [pc |-> "none"]
    /\ graph_log = <<>>
    /\ reset = [pc |-> "none"]
    /\ passes = <<>>

\* No handler has run.
HandlersIdle == SubmitIdle /\ PublishIdle /\ GraphIdle

\* ---------------------------------------------------------- the behaviour
Init ==
    /\ SHIFTS_CONFIG \in BoundedCalendars
    /\ students \in StudentLists
    /\ Len(students) * Len(SHIFTS_CONFIG) <= MaxPairs
    /\ availability_matrix \in AvailabilityMatrices(students, SHIFTS_CONFIG)
    /\ student_max_hours \in CapMaps(students)
    /\ pc = "start"
    /\ x = {}
    /\ status = "NONE"
    /\ best_coverage = 0
    /\ coverage_locked = FALSE
    /\ status2 = "NONE"
    /\ solution = NoSolution
    /\ result = NotReturned
    /\ first_run = NoRun
    /\ other = NoCall
    /\ HandlersIdle

\* lines 104-168: shifts_with_id, the variables and the constraints
BuildModel ==
    /\ pc = "start"
    /\ x' = DecisionVars(students, SHIFTS_CONFIG, availability_matrix)
    /\ pc' = "built"
    /\ UNCHANGED <<handlerVars, first_run, other, SHIFTS_CONFIG, students, availability_matrix,
                   student_max_hours, status, best_coverage, coverage_locked,
                   status2, solution, result>>

\* lines 173-177: model.Maximize(coverage_sum); status = solver.Solve(model)
SolvePhase1 ==
    /\ pc = "built"
    /\ \E o \in SolveOutcomes(
                  ModelValid(students, SHIFTS_CONFIG, student_max_hours),
                  FeasiblePhase1(x, students, SHIFTS_CONFIG, student_max_hours),
                  OptimalPhase1(x, students, SHIFTS_CONFIG, student_max_hours)) :
          /\ status' = o[1]
          /\ solution' = o[2]
    /\ pc' = "solved1"
    /\ UNCHANGED <<handlerVars, first_run, other, SHIFTS_CONFIG, students, availability_matrix,
                   student_max_hours, x, best_coverage, coverage_locked,
                   status2, result>>

\* lines 179-180: if status not in (OPTIMAL, FEASIBLE): return None, None, None
ReturnNoSchedule ==
    /\ pc = "solved1"
    /\ ~HasSolution(status)
    /\ result' = Sentinel
    /\ pc' = "returned"
    /\ UNCHANGED <<handlerVars, first_run, other, SHIFTS_CONFIG, students, availability_matrix,
                   student_max_hours, x, status, best_coverage,
                   coverage_locked, status2, solution>>

\* lines 182-189: best_coverage = solver.Value(coverage_sum);
\* model.Add(coverage_sum == best_coverage)
LockCoverage ==
    /\ pc = "solved1"
    /\ HasSolution(status)
    /\ best_coverage' = CoverageSum(solution.ones, students, SHIFTS_CONFIG)
    /\ coverage_locked' = TRUE
    /\ pc' = "locked"
    /\ UNCHANGED <<handlerVars, first_run, other, SHIFTS_CONFIG, students, availability_matrix,
                   student_max_hours, x, status, status2, solution, result>>

\* lines 191-206: the fairness variables, model.Minimize(fairness_term) and
\* the second solver.Solve(model), whose status is not looked at
SolvePhase2 ==
    /\ pc = "locked"
    /\ students # <<>>
    /\ \E o \in SolveOutcomes(
                  ModelValid(students, SHIFTS_CONFIG, student_max_hours),
                  FeasiblePhase2(x, students, SHIFTS_CONFIG, student_max_hours,
                                 best_coverage),
                  OptimalPhase2(x, students, SHIFTS_CONFIG, student_max_hours,
                                best_coverage)) :
          /\ status2' = o[1]
          /\ solution' = o[2]
    /\ pc' = "solved2"
    /\ UNCHANGED <<handlerVars, first_run, other, SHIFTS_CONFIG, students, availability_matrix,
                   student_max_hours, x, status, best_coverage,
                   coverage_locked, result>>

\* line 192: all_student_hours is empty, the second solve is skipped
SkipPhase2 ==
    /\ pc = "locked"
    /\ students = <<>>
    /\ status2' = "SKIPPED"
    /\ pc' = "solved2"
    /\ UNCHANGED <<handlerVars, first_run, other, SHIFTS_CONFIG, students, availability_matrix,
                   student_max_hours, x, status, best_coverage,
                   coverage_locked, solution, result>>

\* lines 208-258: the projection reads the solver's last response
ExtractResults ==
    /\ pc = "solved2"
    /\ solution.has
    /\ result' = ResultTriple(x, solution.ones, students, SHIFTS_CONFIG)
    /\ pc' = "returned"
    /\ UNCHANGED <<handlerVars, first_run, other, SHIFTS_CONFIG, students, availability_matrix,
                   student_max_hours, x, status, best_coverage,
                   coverage_locked, status2, solution>>

\* lines 226-227 after a second solve that found no solution: the response
\* holds no values, solver.BooleanValue reads past its end.  Depending on
\* the OR-Tools build the read raises, or yields whatever lies there.
ExtractWithoutSolution ==
    /\ pc = "solved2"
    /\ ~solution.has
    /\ \/ /\ pc' = "raised"
          /\ UNCHANGED result
       \/ /\ \E values \in SUBSET x :
                result' = ResultTriple(x, values, students, SHIFTS_CONFIG)
          /\ pc' = "returned"
    /\ UNCHANGED <<handlerVars, first_run, other, SHIFTS_CONFIG, students, availability_matrix,
                   student_max_hours, x, status, best_coverage,
                   coverage_locked, status2, solution>>

Next ==
    \/ BuildModel
    \/ SolvePhase1
    \/ ReturnNoSchedule
    \/ LockCoverage
    \/ SolvePhase2
    \/ SkipPhase2
    \/ ExtractResults
    \/ ExtractWithoutSolution

Spec == Init /\ [][Next]_vars

TypeOK ==
    /\ pc \in {"start", "built", "solved1", "locked", "solved2", "returned", "raised"}
    /\ status \in {"NONE", "OPTIMAL", "FEASIBLE", "UNKNOWN", "INFEASIBLE", "MODEL_INVALID"}
    /\ x \subseteq ShiftIds(SHIFTS_CONFIG) \X Range(students)

\* ------------------------------------------------------ reading the state
\* The call has returned the three views (not the sentinel).
NonSentinel == pc = "returned" /\ ~result[1].is_none

\* The whole sentinel: all three fields are None.
AllNone == \A k \in 1..3 : result[k].is_none

ReturnedSchedule == result[1].value

ReturnedHours == result[2].value

ReturnedGrid == result[3].value

\* A name is listed in a joined assigned_students text.
NameListed(i, text) == i \in Range(text)

\* The availability the lookup gives for a pair, by the spec's reading.
Available(i, s) == DictGet(availability_matrix[i], ShiftId(s), 0) = 1

\* The cap of a student in thousandths of an hour: override or default.
EffectiveCap(i) ==
    IF ~student_max_hours.is_none /\ i \in DOMAIN student_max_hours.value
    THEN student_max_hours.value[i]
    ELSE MAX_WEEKLY_HOURS * 1000

\* Coverage of the returned schedule: over rows with required > 0,
\* number of students assigned times scaled duration.
ReturnedCoverage ==
    SumSeq([n \in DOMAIN SHIFTS_CONFIG |->
              IF Required(SHIFTS_CONFIG[n]) > 0
              THEN ReturnedSchedule[n].assigned_count *
                   ToScaled(ShiftLength(SHIFTS_CONFIG[n]))
              ELSE 0])

\* Neither solve was cut short by the time budget.
SolverCompleted ==
    /\ status = "OPTIMAL"
    /\ status2 \in {"OPTIMAL", "INFEASIBLE", "SKIPPED"}

\* An assignment keeps every student within the scaled hour cap.
RespectsCaps(a) ==
    \A i \in Range(students) :
        TotalHours(a, i, SHIFTS_CONFIG) <= PerStudentMax(i, student_max_hours)

\* Real hours of a student under an assignment, and the spread over students.
RealHours(a, i) ==
    SumSeq([n \in DOMAIN SHIFTS_CONFIG |->
              IF <<ShiftId(SHIFTS_CONFIG[n]), i>> \in a
              THEN ShiftLength(SHIFTS_CONFIG[n]) ELSE 0])

SpreadOf(a) ==
    SetMax({RealHours(a, i) : i \in Range(students)}) -
    SetMin({RealHours(a, i) : i \in Range(students)})

ReturnedSpread ==
    SetMax({ReturnedHours[i] : i \in Range(students)}) -
    SetMin({ReturnedHours[i] : i \in Range(students)})

\* Number of calendar rows whose record lists the student.
ShiftsOf(i) ==
    Cardinality({n \in DOMAIN SHIFTS_CONFIG :
                    NameListed(i, ReturnedSchedule[n].assigned_students)})

\* Scenario D of the spec: 2 students, 2 equal-length rows requiring 1 each,
\* everybody available everywhere, no cap below the length of both rows.
ScenarioD ==
    /\ Len(students) = 2
    /\ Len(SHIFTS_CONFIG) = 2
    /\ \A n \in 1..2 : Required(SHIFTS_CONFIG[n]) = 1
    /\ ShiftLength(SHIFTS_CONFIG[1]) = ShiftLength(SHIFTS_CONFIG[2])
    /\ \A i \in Range(students) :
          /\ \A n \in 1..2 : Available(i, SHIFTS_CONFIG[n])
          /\ EffectiveCap(i) >= 2 * ShiftLength(SHIFTS_CONFIG[1])

\* Well-formed input: availability 0/1, required >= 0, overrides positive.
WellFormedInput ==
    /\ \A n \in DOMAIN SHIFTS_CONFIG : Required(SHIFTS_CONFIG[n]) >= 0
    /\ \A i \in Range(students) :
          \A sid \in DOMAIN availability_matrix[i] :
              availability_matrix[i][sid] \in {0, 1}
    /\ ~student_max_hours.is_none =>
          \A i \in DOMAIN student_max_hours.value :
              student_max_hours.value[i] > 0

AllPairs == ShiftIds(SHIFTS_CONFIG) \X Range(students)

\* The lookup with the pairs of extra made available as well.
Widened(extra) ==
    [i \in Range(students) |->
        [sid \in ShiftIds(SHIFTS_CONFIG) |->
            IF <<sid, i>> \in extra THEN 1
            ELSE DictGet(availability_matrix[i], sid, 0)]]

\* The optimum of Phase 1 for a lookup, students, calendar and caps as given.
OptimalCoverage(avail) ==
    LET xs == DecisionVars(students, SHIFTS_CONFIG, avail)
        F == FeasiblePhase1(xs, students, SHIFTS_CONFIG, student_max_hours)
    IN  SetMax({CoverageSum(a, students, SHIFTS_CONFIG) : a \in F})

\* ------------------------------------------- a second call, same inputs
\* The assignment a result shows: the pairs flagged 1 in the grid.
ReturnedAssignment ==
    {p \in AllPairs : ReturnedGrid.assignments[p[2]][ShiftKey(p[1])] = 1}

\* The fairness objective value of a result: max - min of the scaled hours.
ReturnedFairness ==
    IF students = <<>> THEN 0
    ELSE FairnessTerm(ReturnedAssignment, students, SHIFTS_CONFIG)

OutcomeKind ==
    IF pc = "raised" THEN "raised"
    ELSE IF result[1].is_none THEN "sentinel" ELSE "result"

\* What a caller can compare between two calls.
Outcome ==
    [ran |-> TRUE,
     kind |-> OutcomeKind,
     coverage |-> IF OutcomeKind = "result" THEN ReturnedCoverage ELSE 0,
     fairness |-> IF OutcomeKind = "result" THEN ReturnedFairness ELSE 0,
     assignment |-> IF OutcomeKind = "result" THEN ReturnedAssignment ELSE {},
     status |-> status,
     status2 |-> status2]

\* upload_file is posted again with the same file: the outcome of the call
\* that ended is kept for comparison and run_schedule_optimization starts
\* afresh, with new locals, a new model and a new solver.
RunAgain ==
    /\ pc \in {"returned", "raised"}
    /\ ~first_run.ran
    /\ first_run' = Outcome
    /\ pc' = "start"
    /\ x' = {}
    /\ status' = "NONE"
    /\ best_coverage' = 0
    /\ coverage_locked' = FALSE
    /\ status2' = "NONE"
    /\ solution' = NoSolution
    /\ result' = NotReturned
    /\ UNCHANGED <<handlerVars, other, SHIFTS_CONFIG, students,
                   availability_matrix, student_max_hours>>

NextRerun ==
    \/ BuildModel
    \/ SolvePhase1
    \/ ReturnNoSchedule
    \/ LockCoverage
    \/ SolvePhase2
    \/ SkipPhase2
    \/ ExtractResults
    \/ ExtractWithoutSolution
    \/ RunAgain

InitRerun == Init /\ Len(students) * Len(SHIFTS_CONFIG) <= MaxRerunPairs

SpecRerun == InitRerun /\ [][NextRerun]_vars

\* ------------------------------------- two calls at the same time
\* A second request runs run_schedule_optimization while the first is in
\* progress.  Each call has its own arguments and locals; SHIFTS_CONFIG is
\* the one module-level table both read.  The two calls run the same code,
\* so the second is given the roster that is not the longer one.
CallVarsShared(c) == x

\* x = {} (line 119): the dict of decision variables a call's statements
\* read is the call's own local.
CallVars(c) == IF c = 1 THEN x ELSE other.x

\* A call about to start on its arguments.
NewCall(S, avail, caps) ==
    [pc |-> "start", students |-> S, availability_matrix |-> avail,
     student_max_hours |-> caps, x |-> {}, status |-> "NONE",
     best_coverage |-> 0, coverage_locked |-> FALSE, status2 |-> "NONE",
     solution |-> NoSolution, result |-> NotReturned]

InitTwoCalls ==
    /\ SHIFTS_CONFIG \in BoundedCalendars
    /\ students \in StudentLists
    /\ availability_matrix \in AvailabilityMatrices(students, SHIFTS_CONFIG)
    /\ student_max_hours = None
    /\ pc = "start"
    /\ x = {}
    /\ status = "NONE"
    /\ best_coverage = 0
    /\ coverage_locked = FALSE
    /\ status2 = "NONE"
    /\ solution = NoSolution
    /\ result = NotReturned
    /\ first_run = NoRun
    /\ HandlersIdle
    /\ \E S \in StudentLists :
          /\ (Len(students) + Len(S)) * Len(SHIFTS_CONFIG) <= MaxTwoCallPairs
          /\ Len(S) <= Len(students)
          /\ \E avail \in AvailabilityMatrices(S, SHIFTS_CONFIG) :
                other = NewCall(S, avail, None)

OtherUnchanged ==
    UNCHANGED <<handlerVars, first_run, SHIFTS_CONFIG, students,
                availability_matrix, student_max_hours, pc, x, status, best_coverage,
                coverage_locked, status2, solution, result>>

\* lines 104-168 in the second call
OtherBuildModel ==
    /\ other.pc = "start"
    /\ other' = [other EXCEPT
                    !.x = DecisionVars(other.students, SHIFTS_CONFIG,
                                       other.availability_matrix),
                    !.pc = "built"]
    /\ OtherUnchanged

\* lines 173-177 in the second call
OtherSolvePhase1 ==
    /\ other.pc = "built"
    /\ \E o \in SolveOutcomes(
                  ModelValid(other.students, SHIFTS_CONFIG,
                             other.student_max_hours),
                  FeasiblePhase1(CallVars(2), other.students, SHIFTS_CONFIG,
                                 other.student_max_hours),
                  OptimalPhase1(CallVars(2), other.students, SHIFTS_CONFIG,
                                other.student_max_hours)) :
          other' = [other EXCEPT !.status = o[1], !.solution = o[2],
                                 !.pc = "solved1"]
    /\ OtherUnchanged

\* lines 179-180 in the second call
OtherReturnNoSchedule ==
    /\ other.pc = "solved1"
    /\ ~HasSolution(other.status)
    /\ other' = [other EXCEPT !.result = Sentinel, !.pc = "returned"]
    /\ OtherUnchanged

\* lines 182-189 in the second call
OtherLockCoverage ==
    /\ other.pc = "solved1"
    /\ HasSolution(other.status)
    /\ other' = [other EXCEPT
                    !.best_coverage = CoverageSum(other.solution.ones,
                                                  other.students, SHIFTS_CONFIG),
                    !.coverage_locked = TRUE,
                    !.pc = "locked"]
    /\ OtherUnchanged

\* lines 191-206 in the second call
OtherSolvePhase2 ==
    /\ other.pc = "locked"
    /\ other.students # <<>>
    /\ \E o \in SolveOutcomes(
                  ModelValid(other.students, SHIFTS_CONFIG,
                             other.student_max_hours),
                  FeasiblePhase2(CallVars(2), other.students, SHIFTS_CONFIG,
                                 other.student_max_hours, other.best_coverage),
                  OptimalPhase2(CallVars(2), other.students, SHIFTS_CONFIG,
                                other.student_max_hours, other.best_coverage)) :
          other' = [other EXCEPT !.status2 = o[1], !.solution = o[2],
                                 !.pc = "solved2"]
    /\ OtherUnchanged

\* line 192 in the second call
OtherSkipPhase2 ==
    /\ other.pc = "locked"
    /\ other.students = <<>>
    /\ other' = [other EXCEPT !.status2 = "SKIPPED", !.pc = "solved2"]
    /\ OtherUnchanged

\* lines 208-258 in the second call
OtherExtractResults ==
    /\ other.pc = "solved2"
    /\ other.solution.has
    /\ other' = [other EXCEPT
                    !.result = ResultTriple(CallVars(2), other.solution.ones,
                                            other.students, SHIFTS_CONFIG),
                    !.pc = "returned"]
    /\ OtherUnchanged

\* lines 226-227 in the second call after a solve without a solution
OtherExtractWithoutSolution ==
    /\ other.pc = "solved2"
    /\ ~other.solution.has
    /\ \/ other' = [other EXCEPT !.pc = "raised"]
       \/ \E values \in SUBSET CallVars(2) :
             other' = [other EXCEPT
                         !.result = ResultTriple(CallVars(2), values,
                                                 other.students, SHIFTS_CONFIG),
                         !.pc = "returned"]
    /\ OtherUnchanged

NextTwoCalls ==
    \/ BuildModel
    \/ SolvePhase1
    \/ ReturnNoSchedule
    \/ LockCoverage
    \/ SolvePhase2
    \/ SkipPhase2
    \/ ExtractResults
    \/ ExtractWithoutSolution
    \/ OtherBuildModel
    \/ OtherSolvePhase1
    \/ OtherReturnNoSchedule
    \/ OtherLockCoverage
    \/ OtherSolvePhase2
    \/ OtherSkipPhase2
    \/ OtherExtractResults
    \/ OtherExtractWithoutSolution

SpecTwoCalls == InitTwoCalls /\ [][NextTwoCalls]_vars

\* ------------------------------------------------------------- the claims

\* C1: in every non-sentinel result a student is listed in a shift's record,
\* or flagged 1 in the grid under the shift's label, only if the lookup
\* holds 1 for the pair; a pair that holds 0 or is missing is never assigned.
C1_AssignedOnlyIfAvailable ==
    NonSentinel =>
        \A n \in DOMAIN SHIFTS_CONFIG : \A i \in Range(students) :
            (\/ NameListed(i, ReturnedSchedule[n].assigned_students)
             \/ ReturnedGrid.assignments[i][ShiftKey(SHIFTS_CONFIG[n])] = 1)
            => Available(i, SHIFTS_CONFIG[n])

\* A result that staffs a shift while another pair holds 0 and a third pair
\* is missing from the lookup.
C1_Witness ==
    /\ NonSentinel
    /\ \E n \in DOMAIN SHIFTS_CONFIG : ReturnedSchedule[n].assigned_count > 0
    /\ \E n \in DOMAIN SHIFTS_CONFIG : \E i \in Range(students) :
          /\ ShiftId(SHIFTS_CONFIG[n]) \in DOMAIN availability_matrix[i]
          /\ availability_matrix[i][ShiftId(SHIFTS_CONFIG[n])] = 0
    /\ \E n \in DOMAIN SHIFTS_CONFIG : \E i \in Range(students) :
          ShiftId(SHIFTS_CONFIG[n]) \notin DOMAIN availability_matrix[i]

\* C2: in every non-sentinel result each student's total real hours are at
\* most the student's effective cap (override, else MAX_WEEKLY_HOURS).
C2_HourCapRespected ==
    NonSentinel =>
        \A i \in Range(students) : ReturnedHours[i] <= EffectiveCap(i)

\* C3: when the solver completes, no assignment that respects availability
\* and every student's cap has a larger coverage than the returned schedule.
C3_CoverageMaximal ==
    (NonSentinel /\ SolverCompleted) =>
        \A a \in SUBSET x :
            RespectsCaps(a) =>
                CoverageSum(a, students, SHIFTS_CONFIG) <= ReturnedCoverage

\* C3 as amended: when Phase 1 ends OPTIMAL and Phase 2 ends OPTIMAL or is
\* skipped, no assignment that respects availability, every student's cap
\* and the headcount limit of every row that requires staff has a larger
\* coverage than the returned schedule.
C3_CoverageMaximalWithinHeadcount ==
    (NonSentinel /\ status = "OPTIMAL" /\ status2 \in {"OPTIMAL", "SKIPPED"}) =>
        \A a \in SUBSET x :
            SatisfiesModel(a, students, SHIFTS_CONFIG, student_max_hours) =>
                CoverageSum(a, students, SHIFTS_CONFIG) <= ReturnedCoverage

\* A returned optimum with staff assigned, which an assignment within the
\* caps but above a row's headcount would exceed, and which a cap keeps
\* below the full requirement of the calendar.
C3_Witness ==
    /\ NonSentinel
    /\ status = "OPTIMAL"
    /\ status2 = "OPTIMAL"
    /\ ReturnedCoverage > 0
    /\ \E a \in SUBSET x :
          /\ RespectsCaps(a)
          /\ CoverageSum(a, students, SHIFTS_CONFIG) > ReturnedCoverage

\* C4: the coverage of the assignment projected into the returned result
\* equals best_coverage, the value captured from the Phase 1 solve.
C4_CoverageNeverRegresses == NonSentinel => ReturnedCoverage = best_coverage

\* C5: with students present, the returned schedule has the least spread of
\* hours among the assignments that respect availability and caps and have
\* coverage best_coverage; in Scenario D each student gets exactly one shift.
C5_FairnessSpreadMinimal ==
    (NonSentinel /\ students # <<>>) =>
        /\ \A a \in SUBSET x :
              (RespectsCaps(a) /\
               CoverageSum(a, students, SHIFTS_CONFIG) = best_coverage)
              => ReturnedSpread <= SpreadOf(a)
        /\ ScenarioD => \A i \in Range(students) : ShiftsOf(i) = 1

\* C6: the call returns three None or three values, never a mixture; with
\* three values, every key of the student-hours mapping is in the grid's
\* students and every label of the schedule is in the grid's shift_keys.
C6_SentinelConsistency ==
    pc = "returned" =>
        \/ AllNone
        \/ /\ \A k \in 1..3 : ~result[k].is_none
           /\ DOMAIN ReturnedHours \subseteq Range(ReturnedGrid.students)
           /\ \A n \in DOMAIN ReturnedSchedule :
                 ReturnedSchedule[n].shift \in Range(ReturnedGrid.shift_keys)

\* Both kinds of return are reached: a sentinel, and a result for two
\* students over two rows.
C6_Witness ==
    /\ NonSentinel
    /\ Len(students) = 2
    /\ Len(ReturnedSchedule) = 2
    /\ DOMAIN ReturnedHours = Range(students)

\* C7: for well-formed input the all-zero assignment satisfies the model,
\* so a completed solve never ends in the sentinel; a row nobody is
\* available for is reported with assigned_count 0 and UNSTAFFED.
C7_ZeroAssignmentFeasible ==
    WellFormedInput =>
        /\ pc # "start" =>
              SatisfiesModel({}, students, SHIFTS_CONFIG, student_max_hours)
        /\ (pc = "returned" /\ status # "UNKNOWN") => ~result[1].is_none
        /\ NonSentinel =>
              \A n \in DOMAIN SHIFTS_CONFIG :
                  (\A i \in Range(students) : ~Available(i, SHIFTS_CONFIG[n]))
                  => /\ ReturnedSchedule[n].assigned_count = 0
                     /\ ReturnedSchedule[n].assigned_students = <<"UNSTAFFED">>

\* A completed solve on well-formed input with a positive override, where a
\* row that requires staff has nobody available and is returned UNSTAFFED.
C7_Witness ==
    /\ WellFormedInput
    /\ NonSentinel
    /\ status = "OPTIMAL"
    /\ students # <<>>
    /\ ~student_max_hours.is_none /\ student_max_hours.value # <<>>
    /\ \E n \in DOMAIN SHIFTS_CONFIG :
          /\ Required(SHIFTS_CONFIG[n]) > 0
          /\ \A i \in Range(students) : ~Available(i, SHIFTS_CONFIG[n])
          /\ ReturnedSchedule[n].assigned_students = <<"UNSTAFFED">>

\* C8: a Phase 1 solve without a solution leads to the sentinel as a normal
\* return: no exception, no coverage lock, no second solve, no projection;
\* FEASIBLE goes the way of OPTIMAL.
C8_NoSolutionReturnsSentinel ==
    /\ (pc \notin {"start", "built"} /\ status \notin {"OPTIMAL", "FEASIBLE"}) =>
          /\ pc \in {"solved1", "returned"}
          /\ ~coverage_locked
          /\ status2 = "NONE"
          /\ pc = "returned" => AllNone
    /\ (pc \in {"returned", "raised"} /\ status \in {"OPTIMAL", "FEASIBLE"}) =>
          /\ coverage_locked
          /\ status2 # "NONE"
          /\ pc = "returned" => ~result[1].is_none

\* The budget ran out in Phase 1 although assignments exist, and the
\* sentinel was returned.
C8_Witness ==
    /\ pc = "returned"
    /\ status = "UNKNOWN"
    /\ AllNone
    /\ x # {}

\* A FEASIBLE Phase 1 that went on to a returned schedule.
C8_WitnessFeasible == NonSentinel /\ status = "FEASIBLE"

\* C9: with students, calendar and caps fixed, making more pairs available
\* never lowers the optimal coverage: the optimum under every lookup that
\* contains the given one is at least the optimum Phase 1 returned.
C9_CoverageMonotone ==
    (pc = "locked" /\ status = "OPTIMAL") =>
        \A extra \in SUBSET {p \in AllPairs :
                               DictGet(availability_matrix[p[2]], p[1], 0) # 1} :
            best_coverage <= OptimalCoverage(Widened(extra))

\* A proven optimum that a larger lookup strictly improves, while another
\* larger lookup leaves it as it is.
C9_Witness ==
    /\ pc = "locked"
    /\ status = "OPTIMAL"
    /\ \E p \in AllPairs : best_coverage < OptimalCoverage(Widened({p}))
    /\ \E p \in AllPairs :
          /\ DictGet(availability_matrix[p[2]], p[1], 0) # 1
          /\ best_coverage = OptimalCoverage(Widened({p}))

\* C10: the display schedule has one record per calendar row, in calendar
\* order; record n carries the label and the required headcount of row n.
C10_OneRecordPerShiftInOrder ==
    NonSentinel =>
        /\ Len(ReturnedSchedule) = Len(SHIFTS_CONFIG)
        /\ \A n \in DOMAIN SHIFTS_CONFIG :
              /\ ReturnedSchedule[n].shift = ShiftKey(SHIFTS_CONFIG[n])
              /\ ReturnedSchedule[n].required = Required(SHIFTS_CONFIG[n])

\* A schedule of two rows that differ in label and in required headcount.
C10_Witness ==
    /\ NonSentinel
    /\ Len(ReturnedSchedule) = 2
    /\ ReturnedSchedule[1].shift # ReturnedSchedule[2].shift
    /\ ReturnedSchedule[1].required # ReturnedSchedule[2].required

\* The students of the call, in call order, whose grid flag under the label
\* of calendar row n is 1.
FlaggedStudents(n) ==
    SelectSeq(students,
              LAMBDA i : ReturnedGrid.assignments[i][ShiftKey(SHIFTS_CONFIG[n])] = 1)

\* A text is the names of a sequence joined with ", ".
IsCommaJoined(text, names) ==
    /\ Len(text) = 2 * Len(names) - 1
    /\ \A k \in DOMAIN names : text[2 * k - 1] = names[k]
    /\ \A k \in 1..(Len(names) - 1) : text[2 * k] = ", "

\* C11: in every record, assigned_count is the number of students assigned
\* to the shift (those of the solver's solution, where the projection read
\* one), assigned_students is the comma-joined list of exactly their names,
\* and it is the marker UNSTAFFED if and only if assigned_count is 0.
C11_RecordMatchesAssignment ==
    NonSentinel =>
        \A n \in DOMAIN SHIFTS_CONFIG :
            LET r == ReturnedSchedule[n]
                assigned == FlaggedStudents(n)
            IN  /\ r.assigned_count = Len(assigned)
                /\ solution.has =>
                      Range(assigned) =
                          {i \in Range(students) :
                              <<ShiftId(SHIFTS_CONFIG[n]), i>> \in solution.ones}
                /\ assigned # <<>> => IsCommaJoined(r.assigned_students, assigned)
                /\ (r.assigned_students = <<"UNSTAFFED">>) <=> (r.assigned_count = 0)

\* A schedule read from a solution with a record of two joined names and
\* a record marked UNSTAFFED.
C11_Witness ==
    /\ NonSentinel
    /\ solution.has
    /\ \E n \in DOMAIN SHIFTS_CONFIG :
          /\ ReturnedSchedule[n].assigned_count = 2
          /\ Len(ReturnedSchedule[n].assigned_students) = 3
    /\ \E n \in DOMAIN SHIFTS_CONFIG :
          /\ ReturnedSchedule[n].assigned_count = 0
          /\ \E i \in Range(students) : Available(i, SHIFTS_CONFIG[n])

\* C12: the student-hours mapping has one entry per student of the call,
\* the sum of the real lengths of the rows whose record lists the student,
\* and that value equals the solver's scaled total_hours divided by SCALE.
C12_StudentHoursAgree ==
    NonSentinel =>
        /\ DOMAIN ReturnedHours = Range(students)
        /\ \A i \in Range(students) :
              ReturnedHours[i] =
                  SumSeq([n \in DOMAIN SHIFTS_CONFIG |->
                            IF NameListed(i, ReturnedSchedule[n].assigned_students)
                            THEN ShiftLength(SHIFTS_CONFIG[n]) ELSE 0])
        /\ solution.has =>
              \A i \in Range(students) :
                  ReturnedHours[i] * SCALE =
                      TotalHours(solution.ones, i, SHIFTS_CONFIG) * 1000

\* A sequence holds no element twice.
NoDuplicates(s) == \A k, m \in DOMAIN s : s[k] = s[m] => k = m

\* Position of the first calendar row that carries a label.
FirstRowWithKey(key) ==
    CHOOSE n \in DOMAIN SHIFTS_CONFIG :
        /\ ShiftKey(SHIFTS_CONFIG[n]) = key
        /\ \A m \in DOMAIN SHIFTS_CONFIG :
              ShiftKey(SHIFTS_CONFIG[m]) = key => n <= m

\* C13: the grid holds a 0/1 flag for every pair of a student of the call
\* and a label of the calendar, the flag is 1 exactly when the record of
\* the shift lists the student, 'students' is the sorted list of the
\* students and 'shift_keys' holds each label once, in calendar order.
C13_GridMatchesSchedule ==
    NonSentinel =>
        LET grid == ReturnedGrid
            labels == {ShiftKey(SHIFTS_CONFIG[n]) : n \in DOMAIN SHIFTS_CONFIG}
        IN  /\ DOMAIN grid.assignments = Range(students)
            /\ \A i \in Range(students) :
                  /\ DOMAIN grid.assignments[i] = labels
                  /\ \A n \in DOMAIN SHIFTS_CONFIG :
                        LET flag == grid.assignments[i][ShiftKey(SHIFTS_CONFIG[n])]
                        IN  /\ flag \in {0, 1}
                            /\ flag = 1 <=>
                                  NameListed(i, ReturnedSchedule[n].assigned_students)
            /\ Len(grid.students) = Len(students)
            /\ Range(grid.students) = Range(students)
            /\ \A k, m \in DOMAIN grid.students :
                  k < m => NameRank(grid.students[k]) < NameRank(grid.students[m])
            /\ NoDuplicates(grid.shift_keys)
            /\ Range(grid.shift_keys) = labels
            /\ \A k, m \in DOMAIN grid.shift_keys :
                  k < m => FirstRowWithKey(grid.shift_keys[k]) <
                           FirstRowWithKey(grid.shift_keys[m])

\* A grid over two rows for students handed over out of order, with a flag
\* that is 1 and a flag that is 0 for an available pair.
C13_Witness ==
    /\ NonSentinel
    /\ Len(ReturnedGrid.shift_keys) = 2
    /\ Len(students) = 2
    /\ ReturnedGrid.students # students
    /\ \E i \in Range(students) : \E n \in DOMAIN SHIFTS_CONFIG :
          ReturnedGrid.assignments[i][ShiftKey(SHIFTS_CONFIG[n])] = 1
    /\ \E i \in Range(students) : \E n \in DOMAIN SHIFTS_CONFIG :
          /\ Available(i, SHIFTS_CONFIG[n])
          /\ ReturnedGrid.assignments[i][ShiftKey(SHIFTS_CONFIG[n])] = 0

\* C14: two calls on identical inputs end in the same kind of outcome, with
\* the same coverage value and the same fairness value.
C14_SameOutcomeOnRerun ==
    (first_run.ran /\ pc \in {"returned", "raised"}) =>
        /\ OutcomeKind = first_run.kind
        /\ Outcome.coverage = first_run.coverage
        /\ Outcome.fairness = first_run.fairness

\* Every solve of a call ended with a proven optimum (Phase 2 also counts
\* when it was skipped for an empty student list).
AllProvenOptimal(st, st2) == st = "OPTIMAL" /\ st2 \in {"OPTIMAL", "SKIPPED"}

\* C14 as amended: two calls on identical inputs in which every solve ends
\* OPTIMAL both return a result, with the same coverage value and the same
\* fairness value.
C14_SameOptimaOnRerun ==
    (/\ first_run.ran
     /\ pc \in {"returned", "raised"}
     /\ AllProvenOptimal(first_run.status, first_run.status2)
     /\ AllProvenOptimal(status, status2)) =>
        /\ OutcomeKind = "result"
        /\ first_run.kind = "result"
        /\ Outcome.coverage = first_run.coverage
        /\ Outcome.fairness = first_run.fairness

\* Two calls with proven optima that return different assignments of the
\* same positive coverage and the same positive fairness value.
C14_Witness ==
    /\ first_run.ran
    /\ pc = "returned"
    /\ AllProvenOptimal(first_run.status, first_run.status2)
    /\ AllProvenOptimal(status, status2)
    /\ OutcomeKind = "result"
    /\ ReturnedAssignment # first_run.assignment
    /\ Outcome.coverage > 0
    /\ Outcome.fairness > 0

\* A call that ended with two statuses, a raise or a returned value ended
\* as a call can end that runs alone on the arguments S, avail, caps.
EndsAsAlone(st, st2, raised, res, S, avail, caps) ==
    LET cal == SHIFTS_CONFIG
        xs == DecisionVars(S, cal, avail)
        valid == ModelValid(S, cal, caps)
        F1 == FeasiblePhase1(xs, S, cal, caps)
        Projects(A) == ~raised /\ \E a \in A : res = ResultTriple(xs, a, S, cal)
        AfterPhase1(a1) ==
            LET best == CoverageSum(a1, S, cal)
                F2 == FeasiblePhase2(xs, S, cal, caps, best)
            IN  IF S = <<>> THEN st2 = "SKIPPED" /\ Projects({a1})
                ELSE CASE st2 = "OPTIMAL" ->
                            Projects(OptimalPhase2(xs, S, cal, caps, best))
                       [] st2 = "FEASIBLE" -> Projects(F2)
                       [] st2 = "UNKNOWN" -> raised \/ Projects(SUBSET xs)
                       [] st2 = "INFEASIBLE" ->
                            F2 = {} /\ (raised \/ Projects(SUBSET xs))
                       [] OTHER -> FALSE
    IN  CASE st = "MODEL_INVALID" -> ~valid /\ ~raised /\ res = Sentinel /\ st2 = "NONE"
          [] st = "INFEASIBLE" ->
               valid /\ F1 = {} /\ ~raised /\ res = Sentinel /\ st2 = "NONE"
          [] st = "UNKNOWN" -> valid /\ ~raised /\ res = Sentinel /\ st2 = "NONE"
          [] st = "OPTIMAL" ->
               valid /\ \E a1 \in OptimalPhase1(xs, S, cal, caps) : AfterPhase1(a1)
          [] st = "FEASIBLE" -> valid /\ \E a1 \in F1 : AfterPhase1(a1)
          [] OTHER -> FALSE

\* C15: of two calls whose steps interleave, each ends as it can end when
\* it runs alone on its own arguments: neither reads what the other wrote.
C15_CallsDoNotInterfere ==
    /\ pc \in {"returned", "raised"} =>
          EndsAsAlone(status, status2, pc = "raised", result,
                      students, availability_matrix, student_max_hours)
    /\ other.pc \in {"returned", "raised"} =>
          EndsAsAlone(other.status, other.status2, other.pc = "raised",
                      other.result, other.students, other.availability_matrix,
                      other.student_max_hours)

\* Both calls ran for the same student with different availability, both
\* reached proven optima, and they returned different schedules.
C15_Witness ==
    /\ pc = "returned"
    /\ other.pc = "returned"
    /\ students # <<>>
    /\ other.students = students
    /\ other.availability_matrix # availability_matrix
    /\ status = "OPTIMAL" /\ status2 = "OPTIMAL"
    /\ other.status = "OPTIMAL" /\ other.status2 = "OPTIMAL"
    /\ ~result[1].is_none
    /\ ~other.result[1].is_none
    /\ other.result # result

\* The pairs of x whose shift requires nobody.
ZeroRequiredPairs ==
    {p \in x : \E n \in DOMAIN SHIFTS_CONFIG :
                  /\ ShiftId(SHIFTS_CONFIG[n]) = p[1]
                  /\ Required(SHIFTS_CONFIG[n]) = 0}

\* C16: no shift with required = 0 is staffed, neither in the solution a
\* solve ends with nor in a returned schedule.
C16_ZeroRequiredNeverStaffed ==
    /\ solution.has => solution.ones \cap ZeroRequiredPairs = {}
    /\ NonSentinel =>
          \A n \in DOMAIN SHIFTS_CONFIG :
              Required(SHIFTS_CONFIG[n]) = 0 =>
                  ReturnedSchedule[n].assigned_count = 0

\* C16 as amended: a shift with required = 0 adds nothing to the coverage
\* value, whoever staffs it; where a returned schedule staffs such a shift,
\* the student is available for it and the hours of the shift are counted
\* in the student's hours.
C16_ZeroRequiredOutsideCoverage ==
    /\ pc = "locked" =>
          best_coverage =
              CoverageSum(solution.ones \ ZeroRequiredPairs, students, SHIFTS_CONFIG)
    /\ NonSentinel =>
          /\ ReturnedCoverage =
                CoverageSum(ReturnedAssignment \ ZeroRequiredPairs,
                            students, SHIFTS_CONFIG)
          /\ \A n \in DOMAIN SHIFTS_CONFIG : \A i \in Range(students) :
                (/\ Required(SHIFTS_CONFIG[n]) = 0
                 /\ NameListed(i, ReturnedSchedule[n].assigned_students)) =>
                    /\ Available(i, SHIFTS_CONFIG[n])
                    /\ ReturnedHours[i] >= ShiftLength(SHIFTS_CONFIG[n])

\* Both solves ended OPTIMAL and every optimum of Phase 2 staffs a shift
\* that requires nobody, as the returned schedule does.
C16_Witness ==
    /\ NonSentinel
    /\ status = "OPTIMAL"
    /\ status2 = "OPTIMAL"
    /\ \E n \in DOMAIN SHIFTS_CONFIG :
          /\ Required(SHIFTS_CONFIG[n]) = 0
          /\ ReturnedSchedule[n].assigned_count > 0
    /\ \A a \in OptimalPhase2(x, students, SHIFTS_CONFIG, student_max_hours,
                               best_coverage) :
          a \cap ZeroRequiredPairs # {}

\* C17: with an empty student list no second solve is run and, unless the
\* budget ends the first solve without a solution, the call returns a
\* result: one record per calendar row with assigned_count 0 and UNSTAFFED,
\* an empty student-hours mapping and a grid with no students.
C17_EmptyStudentList ==
    students = <<>> =>
        /\ status2 \in {"NONE", "SKIPPED"}
        /\ pc # "raised"
        /\ (pc = "returned" /\ status # "UNKNOWN") =>
              /\ \A k \in 1..3 : ~result[k].is_none
              /\ status2 = "SKIPPED"
              /\ Len(ReturnedSchedule) = Len(SHIFTS_CONFIG)
              /\ \A n \in DOMAIN SHIFTS_CONFIG :
                    /\ ReturnedSchedule[n].assigned_count = 0
                    /\ ReturnedSchedule[n].assigned_students = <<"UNSTAFFED">>
              /\ DOMAIN ReturnedHours = {}
              /\ ReturnedGrid.students = <<>>
              /\ DOMAIN ReturnedGrid.assignments = {}

\* A result for no students over a calendar of two rows or more.
C17_Witness ==
    /\ students = <<>>
    /\ NonSentinel
    /\ status2 = "SKIPPED"
    /\ Len(ReturnedSchedule) >= 2
    /\ \E n \in DOMAIN SHIFTS_CONFIG : Required(SHIFTS_CONFIG[n]) > 0

\* C18: the solution of Phase 1 satisfies the model of Phase 2, and that
\* model admits exactly the assignments of the Phase 1 model whose coverage
\* is best_coverage, also with an override cap above MAX_WEEKLY_HOURS.
C18_Phase1SolutionFitsPhase2 ==
    (pc = "locked" /\ students # <<>>) =>
        LET F2 == FeasiblePhase2(x, students, SHIFTS_CONFIG, student_max_hours,
                                 best_coverage)
        IN  /\ solution.ones \in F2
            /\ F2 = {a \in FeasiblePhase1(x, students, SHIFTS_CONFIG,
                                           student_max_hours) :
                        CoverageSum(a, students, SHIFTS_CONFIG) = best_coverage}

\* C19: whatever the status of the second solve, the projection reads the
\* values of a solution, never a response without one: no call raises in
\* the projection, and every result shows an assignment that satisfies
\* availability, the caps and coverage = best_coverage.
C19_ResultReadFromSolution ==
    /\ pc # "raised"
    /\ NonSentinel =>
          /\ solution.has
          /\ ReturnedAssignment \subseteq x
          /\ SatisfiesModel(ReturnedAssignment, students, SHIFTS_CONFIG,
                            student_max_hours)
          /\ CoverageSum(ReturnedAssignment, students, SHIFTS_CONFIG) =
                best_coverage

\* C20: in every returned schedule no shift with required > 0 has more
\* students assigned than it requires.
C20_NoOverStaffing ==
    NonSentinel =>
        \A n \in DOMAIN SHIFTS_CONFIG :
            Required(SHIFTS_CONFIG[n]) > 0 =>
                ReturnedSchedule[n].assigned_count <= Required(SHIFTS_CONFIG[n])

\* ------------------------------------------------------------------------
\* The handlers of app.py.  While they run the scheduling engine is at rest.
engineVars ==
    <<SHIFTS_CONFIG, students, availability_matrix, student_max_hours,
      pc, x, status, best_coverage, coverage_locked, status2, solution,
      result, first_run, other>>

\* No call of run_schedule_optimization is in progress.
EngineLocalsIdle ==
    /\ pc = "start"
    /\ x = {}
    /\ status = "NONE"
    /\ best_coverage = 0
    /\ coverage_locked = FALSE
    /\ status2 = "NONE"
    /\ solution = NoSolution
    /\ result = NotReturned
    /\ first_run = NoRun
    /\ other = NoCall

\* No call is in progress and no student list has been built.
EngineIdle ==
    /\ SHIFTS_CONFIG = SubSeq(ShiftTable, 1, 1)
    /\ students = <<>>
    /\ availability_matrix = <<>>
    /\ student_max_hours = None
    /\ EngineLocalsIdle


\* --------------------------------------------- /submit-availability
\* A request is between its read of the file and the end of its rewrite.
InFlight(r) == request[r].pc \in {"read", "open"}

\* app.py lines 411-435: a request the handler answers with 400 (no shifts,
\* no CWID); it touches no file.  A request that ends "done" was answered
\* with success.
SubmitReject(r) ==
    /\ request[r].pc = "idle"
    /\ \E cwid \in CWIDs \cup {""}, shifts \in ShiftSelections :
          /\ shifts = <<>> \/ cwid = ""
          /\ request' = [request EXCEPT ![r] = [pc |-> "rejected"]]
    /\ UNCHANGED <<csv_file, submitted, publishVars, graphVars, engineVars>>

\* app.py lines 411-502: a valid request builds its row and reads the rows
\* of the week's file that belong to other CWIDs.
SubmitRead(r) ==
    /\ request[r].pc = "idle"
    /\ \E cwid \in CWIDs, shifts \in ShiftSelections \ {<<>>} :
          request' = [request EXCEPT ![r] =
              [pc |-> "read", cwid |-> cwid, shifts |-> shifts,
               existing_rows |->
                   Append(ExistingRows(csv_file, cwid), Row(cwid, shifts)),
               overlapped |-> \E q \in DOMAIN request : q # r /\ InFlight(q)]]
    /\ UNCHANGED <<csv_file, submitted, publishVars, graphVars, engineVars>>

\* app.py line 504: open(csv_path, 'w') truncates the file.
SubmitOpenForWrite(r) ==
    /\ request[r].pc = "read"
    /\ csv_file' = Some(<<>>)
    /\ request' = [request EXCEPT ![r].pc = "open"]
    /\ UNCHANGED <<submitted, publishVars, graphVars, engineVars>>

\* app.py lines 505-509: the header and existing_rows are written, the file
\* is closed and the request is answered with success.
SubmitWrite(r) ==
    /\ request[r].pc = "open"
    /\ csv_file' = Some(request[r].existing_rows)
    /\ submitted' = Append(submitted, Row(request[r].cwid, request[r].shifts))
    /\ request' = [request EXCEPT ![r].pc = "done"]
    /\ UNCHANGED <<publishVars, graphVars, engineVars>>

InitSubmit == EngineIdle /\ SubmitIdle /\ PublishIdle /\ GraphIdle

NextSubmit ==
    \/ \E r \in 1..MaxRequests : SubmitReject(r)
    \/ \E r \in 1..MaxRequests : SubmitRead(r)
    \/ \E r \in 1..MaxRequests : SubmitOpenForWrite(r)
    \/ \E r \in 1..MaxRequests : SubmitWrite(r)

SpecSubmit == InitSubmit /\ [][NextSubmit]_vars

\* No request is between its read and the end of its rewrite.
Quiescent == \A r \in DOMAIN request : ~InFlight(r)

\* The CWIDs that were answered with success.
Submitters == {submitted[n].CWID : n \in DOMAIN submitted}

\* The most recent successful submission of a CWID.
LatestSubmission(cwid) ==
    LET n == CHOOSE n \in DOMAIN submitted :
                 /\ submitted[n].CWID = cwid
                 /\ \A m \in DOMAIN submitted :
                        submitted[m].CWID = cwid => m <= n
    IN  submitted[n]

\* The file holds one row per submitter, the submitter's latest.
OneLatestRowPerSubmitter ==
    LET rows == IF csv_file.is_none THEN <<>> ELSE csv_file.value
    IN  /\ \A n \in DOMAIN rows : rows[n].CWID \in Submitters
        /\ \A c \in Submitters :
              /\ Cardinality({n \in DOMAIN rows : rows[n].CWID = c}) = 1
              /\ \E n \in DOMAIN rows : rows[n] = LatestSubmission(c)

\* C21: once the successful /submit-availability requests for a week have
\* ended, in whatever way their reads and rewrites interleaved, the week's
\* CSV holds exactly one row per CWID that submitted and that row is the
\* CWID's most recent submission.
C21_OneLatestRowPerCWID == Quiescent => OneLatestRowPerSubmitter

\* The same for requests of which none read the file while another was
\* between its read and the end of its rewrite.
C21_SerialRequestsKeepRows ==
    (Quiescent /\ \A r \in DOMAIN request :
                     request[r].pc = "done" => ~request[r].overlapped)
        => OneLatestRowPerSubmitter

\* Two requests ended with success one after the other.
C21_SerialWitness ==
    /\ Len(submitted) = 2
    /\ \A r \in DOMAIN request :
          request[r].pc = "done" /\ ~request[r].overlapped

\* ------------------------------------- / (upload_file), /publish-to-teams
\* Students of a schedule that is generated for publishing.
MaxPublishStudents == 1

\* The calendar of the generations that are published: the first row of the
\* table.
PublishCalendar == SubSeq(ShiftTable, 1, 1)

\* schedule_log.py lines 31-36: None when the week has no CSV, else its
\* records.
LoadScheduleLog(logs, w) == logs[w]

\* schedule_log.py lines 13-15: pd.DataFrame(schedule).to_csv(...) writes a
\* file whatever it is given; for None the file has no records.
SavedLog(schedule) ==
    Some(IF schedule.is_none THEN <<>> ELSE schedule.value)

ScheduleIsNoneNever(res) == FALSE

\* app.py line 347: schedule is None
ScheduleIsNone(res) == res[1].is_none

\* The locals of a finished call of run_schedule_optimization are dropped.
EngineReset ==
    /\ pc' = "start"
    /\ x' = {}
    /\ status' = "NONE"
    /\ best_coverage' = 0
    /\ coverage_locked' = FALSE
    /\ status2' = "NONE"
    /\ solution' = NoSolution
    /\ result' = NotReturned
    /\ UNCHANGED <<first_run, other, SHIFTS_CONFIG, students,
                   availability_matrix, student_max_hours>>

\* app.py lines 297-343: a POST of an owner selects the week, stores it in
\* the session, builds the inputs and calls run_schedule_optimization.
UploadPost(w) ==
    /\ upload.pc = "none"
    /\ pc = "start"
    /\ session_week' = Some(w)
    /\ upload' = [pc |-> "running", week |-> w]
    /\ UNCHANGED <<schedule_logs, publish_answer, submitVars, graphVars, engineVars>>

\* app.py lines 297-336: a POST without a usable upload, or for a week
\* without submissions, stores the week and ends before the engine is called.
UploadWithoutInput(w) ==
    /\ upload.pc = "none"
    /\ pc = "start"
    /\ session_week # Some(w)
    /\ session_week' = Some(w)
    /\ upload' = NoUpload
    /\ UNCHANGED <<schedule_logs, publish_answer, submitVars, graphVars, engineVars>>

\* The steps of run_schedule_optimization inside the POST.
UploadRun ==
    /\ upload.pc = "running"
    /\ \/ BuildModel
       \/ SolvePhase1
       \/ ReturnNoSchedule
       \/ LockCoverage
       \/ SolvePhase2
       \/ SkipPhase2
       \/ ExtractResults
       \/ ExtractWithoutSolution

\* app.py lines 347-369: a schedule was returned; it is saved under the
\* selected week and rendered.
UploadSave ==
    /\ upload.pc = "running"
    /\ pc = "returned"
    /\ ~ScheduleIsNone(result)
    /\ schedule_logs' =
           [schedule_logs EXCEPT ![upload.week] = SavedLog(result[1])]
    /\ upload' = NoUpload
    /\ EngineReset
    /\ UNCHANGED <<session_week, publish_answer, submitVars, graphVars>>

\* app.py lines 347-357: the sentinel was returned; the error page is
\* rendered.
UploadNoSchedule ==
    /\ upload.pc = "running"
    /\ pc = "returned"
    /\ ScheduleIsNone(result)
    /\ upload' = NoUpload
    /\ EngineReset
    /\ UNCHANGED <<schedule_logs, session_week, publish_answer, submitVars, graphVars>>

\* app.py lines 371-381: the call raised; the error page is rendered.
UploadError ==
    /\ upload.pc = "running"
    /\ pc = "raised"
    /\ upload' = NoUpload
    /\ EngineReset
    /\ UNCHANGED <<schedule_logs, session_week, publish_answer, submitVars, graphVars>>

\* app.py lines 609-616: /history/<week> of a saved week selects that week.
ViewPastSchedule(w) ==
    /\ ~LoadScheduleLog(schedule_logs, w).is_none
    /\ session_week # Some(w)
    /\ session_week' = Some(w)
    /\ UNCHANGED <<schedule_logs, upload, publish_answer, submitVars, graphVars, engineVars>>

\* One answer of /publish-to-teams: the week it was about, the status code
\* and the schedule handed to regenerate_weekly_schedule (None: the function
\* was not called and no request went to Graph).
PublishAnswer(week, code, pushed) ==
    [turn |-> 1 - publish_answer.turn, week |-> week, code |-> code,
     pushed |-> pushed]

\* app.py lines 514-542: the week comes from the body or else from the
\* session; without a week or without a log the answer is 400; otherwise
\* regenerate_weekly_schedule runs, and the answer is 200 or, if it raised,
\* 500.
PublishToTeams(arg) ==
    /\ LET week == IF arg.is_none THEN session_week ELSE arg
       IN  IF week.is_none
           THEN publish_answer' = PublishAnswer(week, 400, None)
           ELSE LET schedule == LoadScheduleLog(schedule_logs, week.value)
                IN  IF schedule.is_none
                    THEN publish_answer' = PublishAnswer(week, 400, None)
                    ELSE \E code \in {200, 500} :
                        publish_answer' = PublishAnswer(week, code, schedule)
    /\ UNCHANGED <<schedule_logs, session_week, upload, submitVars, graphVars, engineVars>>

\* The inputs are those of the Excel path of upload_file: dense rows and no
\* override of the weekly cap.
InitPublish ==
    /\ Init
    /\ SHIFTS_CONFIG = PublishCalendar
    /\ Len(students) <= MaxPublishStudents
    /\ \A i \in Range(students) :
          DOMAIN availability_matrix[i] = ShiftIds(SHIFTS_CONFIG)
    /\ student_max_hours = None

NextPublish ==
    \/ \E w \in Weeks : UploadPost(w)
    \/ \E w \in Weeks : UploadWithoutInput(w)
    \/ UploadRun
    \/ UploadSave
    \/ UploadNoSchedule
    \/ UploadError
    \/ \E w \in Weeks : ViewPastSchedule(w)
    \/ \E arg \in {None} \cup {Some(w) : w \in Weeks} : PublishToTeams(arg)

SpecPublish == InitPublish /\ [][NextPublish]_vars

\* A step that changes the logs writes the schedule that the running
\* generation returned, under the week of that generation.
LogWrittenOnlyForResult ==
    schedule_logs' # schedule_logs =>
        /\ upload.pc = "running"
        /\ pc = "returned"
        /\ ~result[1].is_none
        /\ schedule_logs' =
               [schedule_logs EXCEPT ![upload.week] = Some(result[1].value)]

\* A generation that ends with the sentinel or with an exception leaves the
\* logs as they were.
NothingSavedOnFailure ==
    (/\ upload.pc = "running"
     /\ upload'.pc = "none"
     /\ pc = "raised" \/ (pc = "returned" /\ result[1].is_none))
        => schedule_logs' = schedule_logs

\* A publish request reaches Graph only with the log of its week, and for a
\* week without a log it is answered 400 and reaches nothing.
PublishOnlyWithLog ==
    publish_answer' # publish_answer =>
        LET e == publish_answer'
        IN  /\ ~e.pushed.is_none =>
                  /\ ~e.week.is_none
                  /\ ~schedule_logs[e.week.value].is_none
                  /\ e.pushed = schedule_logs[e.week.value]
            /\ (~e.week.is_none /\ schedule_logs[e.week.value].is_none) =>
                  /\ e.code = 400
                  /\ e.pushed.is_none

\* C22: publish_to_teams pushes a schedule for a week only if a schedule log
\* exists for that week; a log for a week is written only when
\* run_schedule_optimization has returned a non-sentinel result in the
\* generation for that week; a generation that returned the sentinel or
\* raised saves nothing; publishing a week without a log is answered 400
\* with no Graph call.
C22_PublishNeedsSavedLog ==
    [][LogWrittenOnlyForResult /\ NothingSavedOnFailure
         /\ PublishOnlyWithLog]_vars

\* A publish was pushed for a week with a saved schedule while the session
\* points at a week without a log.
C22_Witness ==
    /\ publish_answer.code = 200
    /\ ~publish_answer.pushed.is_none
    /\ publish_answer.pushed = schedule_logs[publish_answer.week.value]
    /\ ~session_week.is_none
    /\ session_week # publish_answer.week
    /\ schedule_logs[session_week.value].is_none

\* A publish for a week without a log was answered 400.
C22_WitnessRefused ==
    /\ publish_answer.code = 400
    /\ ~publish_answer.week.is_none
    /\ schedule_logs[publish_answer.week.value].is_none
    /\ \E w \in Weeks : ~schedule_logs[w].is_none

\* ------------------------------ regenerate_weekly_schedule (graph_scheduler)
\* (student, row) pairs of a schedule that is pushed to Teams.
MaxRegenPairs == 2

\* DAY_MAP
DAY_MAP(day) ==
    CASE day = "Mon" -> 0 [] day = "Tue" -> 1 [] day = "Wed" -> 2
      [] day = "Thu" -> 3 [] day = "Fri" -> 4 [] day = "Sat" -> 5
      [] OTHER -> 6

\* round(a / b) of Python for a >= 0, b > 0: to the nearest, a tie to even.
RoundDiv(a, b) ==
    LET q == a \div b
        r == a % b
    IN  IF 2 * r > b \/ (2 * r = b /\ q % 2 = 1) THEN q + 1 ELSE q

\* to_hm(f) for a time read from the label, in hundredths of an hour:
\* h = int(f), m = int(round((f - h) * 60)); as the minute of the day.
ToHM(v) == (v \div 100) * 60 + RoundDiv((v % 100) * 60, 100)

\* build_shift_datetimes(shift_str, week_monday): the day of the week and
\* the start and end minute of the shift that the label names.
BuildShiftDatetimes(key) ==
    [day |-> DAY_MAP(key[1]), start |-> ToHM(key[2]), end |-> ToHM(key[3])]

UnfilledSlotsIgnoresAssigned(required, assigned) == required

\* unfilled_slots = max(0, required - assigned)
UnfilledSlots(required, assigned) == Max2(0, required - assigned)

\* [s.strip() for s in item["assigned_students"].split(",")], for names
\* that hold no comma
SplitNames(text) == SelectSeq(text, LAMBDA piece : piece # ", ")

\* The students of a record that create_shift is called for: the listed
\* names that are members of the team.
KnownStudents(item, members) ==
    IF item.assigned_students = <<"UNSTAFFED">> THEN <<>>
    ELSE SelectSeq(SplitNames(item.assigned_students),
                   LAMBDA n : n \in members)

\* The function has been called with the log of the week (publish_to_teams,
\* app.py line 530).
Called == [pc |-> "called", i |-> 1]

\* The log is a schedule the engine can have returned for a calendar and a
\* student list, the team has some of the students as members, and the week
\* holds older shifts.
InitRegenerate ==
    /\ SHIFTS_CONFIG \in BoundedCalendars
    /\ students \in StudentLists
    /\ Len(students) * Len(SHIFTS_CONFIG) <= MaxRegenPairs
    /\ availability_matrix =
           [i \in Range(students) |-> [sid \in ShiftIds(SHIFTS_CONFIG) |-> 1]]
    /\ student_max_hours = None
    /\ EngineLocalsIdle
    /\ SubmitIdle
    /\ PublishIdle
    /\ \E values \in SUBSET (ShiftIds(SHIFTS_CONFIG) \X Range(students)) :
          display_schedule =
              DisplaySchedule(ShiftIds(SHIFTS_CONFIG) \X Range(students),
                              values, students, SHIFTS_CONFIG)
    /\ user_map \in {Range(students), Range(students) \ {"bea"}}
    /\ teams \in {TeamsSchedule(a, b) : a, b \in 0..MaxTeamsShifts}
    /\ regen = Called
    /\ graph_log = <<>>
    /\ reset = [pc |-> "none"]
    /\ passes = <<>>

RegenUnchanged ==
    UNCHANGED <<display_schedule, user_map, resetVars, submitVars,
                publishVars, engineVars>>

\* line 232: token = get_graph_token(); the request can fail.
RegenGetToken ==
    /\ regen.pc = "called"
    /\ \E ok \in BOOLEAN :
          regen' = [regen EXCEPT !.pc = IF ok THEN "members" ELSE "raised"]
    /\ UNCHANGED <<teams, graph_log>>
    /\ RegenUnchanged

\* line 239: user_map = get_team_members(team_id, token)
RegenGetMembers ==
    /\ regen.pc = "members"
    /\ \E ok \in BOOLEAN :
          regen' = [regen EXCEPT !.pc = IF ok THEN "delete" ELSE "raised"]
    /\ UNCHANGED <<teams, graph_log>>
    /\ RegenUnchanged

\* line 242 and lines 102-143: the listing of the shifts can raise; each
\* shift of the week is deleted or counted as failed, and failed is not
\* read again.
RegenDeleteShifts ==
    /\ regen.pc = "delete"
    /\ \/ /\ regen' = [regen EXCEPT !.pc = "raised"]
          /\ UNCHANGED <<teams, graph_log>>
       \/ \E deleted \in 0..teams.shifts :
             /\ teams' = [teams EXCEPT !.shifts = @ - deleted]
             /\ graph_log' = Append(graph_log,
                    [op |-> "delete_shifts", deleted |-> deleted,
                     failed |-> teams.shifts - deleted])
             /\ regen' = [regen EXCEPT !.pc = "delete_open"]
    /\ RegenUnchanged

\* line 245 and lines 55-101: a listing that fails gives (0, 0).
RegenDeleteOpenShifts ==
    /\ regen.pc = "delete_open"
    /\ \/ /\ graph_log' = Append(graph_log,
                 [op |-> "delete_open_shifts", deleted |-> 0, failed |-> 0])
          /\ UNCHANGED teams
       \/ \E deleted \in 0..teams.open_shifts :
             /\ teams' = [teams EXCEPT !.open_shifts = @ - deleted]
             /\ graph_log' = Append(graph_log,
                    [op |-> "delete_open_shifts", deleted |-> deleted,
                     failed |-> teams.open_shifts - deleted])
    /\ regen' = [regen EXCEPT !.pc = "items"]
    /\ RegenUnchanged

\* lines 252-293, one pass of the loop: create_shift for each known student
\* of the record (a failure raises out of the function), then, for
\* unfilled_slots > 0, create_open_shift inside try/except (a failure is
\* printed and the loop goes on).
RegenItem ==
    /\ regen.pc = "items"
    /\ regen.i <= Len(display_schedule)
    /\ LET item == display_schedule[regen.i]
           window == BuildShiftDatetimes(item.shift)
           unfilled_slots == UnfilledSlots(item.required, item.assigned_count)
           known == KnownStudents(item, user_map)
           Created(k) == [n \in 1..k |-> [user |-> known[n], window |-> window]]
       IN  \/ \E k \in 0..(Len(known) - 1) :
                 /\ teams' = [teams EXCEPT !.new_shifts = @ \o Created(k)]
                 /\ regen' = [regen EXCEPT !.pc = "raised"]
                 /\ UNCHANGED graph_log
           \/ /\ unfilled_slots > 0
              /\ \E ok \in BOOLEAN :
                    /\ teams' = [teams EXCEPT
                          !.new_shifts = @ \o Created(Len(known)),
                          !.new_open_shifts =
                              IF ok
                              THEN Append(@, [window |-> window,
                                              openSlotCount |-> unfilled_slots])
                              ELSE @]
                    /\ graph_log' = Append(graph_log,
                          [op |-> "create_open_shift", item |-> regen.i,
                           window |-> window, slot_count |-> unfilled_slots,
                           ok |-> ok])
              /\ regen' = [regen EXCEPT !.i = @ + 1]
           \/ /\ unfilled_slots <= 0
              /\ teams' = [teams EXCEPT !.new_shifts = @ \o Created(Len(known))]
              /\ regen' = [regen EXCEPT !.i = @ + 1]
              /\ UNCHANGED graph_log
    /\ RegenUnchanged

\* lines 295-296: the loop has ended and the function returns.
RegenReturn ==
    /\ regen.pc = "items"
    /\ regen.i > Len(display_schedule)
    /\ regen' = [regen EXCEPT !.pc = "returned"]
    /\ UNCHANGED <<teams, graph_log>>
    /\ RegenUnchanged

NextRegenerate ==
    \/ RegenGetToken
    \/ RegenGetMembers
    \/ RegenDeleteShifts
    \/ RegenDeleteOpenShifts
    \/ RegenItem
    \/ RegenReturn

SpecRegenerate == InitRegenerate /\ [][NextRegenerate]_vars

\* The window of a calendar row: its day and the minutes of its start and
\* end, from the times of the row.
WindowOfRow(s) ==
    [day |-> DAY_MAP(s[1]), start |-> RoundDiv(s[2] * 60, 1000),
     end |-> RoundDiv(s[3] * 60, 1000)]

\* Record n of the log is understaffed.
Understaffed(n) ==
    display_schedule[n].assigned_count < display_schedule[n].required

\* What the claim expects for the first k records: one open shift per
\* understaffed record, in the order of the records.
RECURSIVE ExpectedOpenShifts(_)
ExpectedOpenShifts(k) ==
    IF k = 0 THEN <<>>
    ELSE IF Understaffed(k)
         THEN Append(ExpectedOpenShifts(k - 1),
                  [window |-> WindowOfRow(SHIFTS_CONFIG[k]),
                   openSlotCount |-> display_schedule[k].required
                                       - display_schedule[k].assigned_count])
         ELSE ExpectedOpenShifts(k - 1)

\* The create-open-shift requests sent so far, and those Graph accepted.
OpenShiftPosts == SelectSeq(graph_log, LAMBDA e : e.op = "create_open_shift")

AcceptedPosts == SelectSeq(OpenShiftPosts, LAMBDA e : e.ok)

AsOpenShifts(posts) ==
    [n \in DOMAIN posts |->
        [window |-> posts[n].window, openSlotCount |-> posts[n].slot_count]]

\* C23 as stated: when regenerate_weekly_schedule has returned, the week
\* holds one new open shift for every record with assigned_count < required,
\* for the window of its shift and with openSlotCount = required -
\* assigned_count, and none for a record with assigned_count >= required.
C23_OpenShiftPerUnderstaffedRecord ==
    regen.pc = "returned" =>
        teams.new_open_shifts = ExpectedOpenShifts(Len(display_schedule))

\* C23, amended: the function sends one create-open-shift request for every
\* understaffed record it has got past, for the window of the record's shift
\* and with openSlotCount = required - assigned_count, and none for another
\* record; every such request follows the two delete passes; the open shifts
\* that exist afterwards are those of the accepted requests; and when the
\* function returns it has got past every record.
C23_OpenShiftRequestPerUnderstaffedRecord ==
    /\ AsOpenShifts(OpenShiftPosts) = ExpectedOpenShifts(regen.i - 1)
    /\ teams.new_open_shifts = AsOpenShifts(AcceptedPosts)
    /\ \A n \in DOMAIN graph_log :
          graph_log[n].op = "create_open_shift" =>
              /\ n > 2
              /\ graph_log[1].op = "delete_shifts"
              /\ graph_log[2].op = "delete_open_shifts"
    /\ regen.pc = "returned" => regen.i - 1 = Len(display_schedule)

\* The function returned after a record that was staffed as required, for
\* which shifts were created, and an understaffed one whose open shift was
\* accepted, while an older shift of the week could not be deleted.
C23_Witness ==
    /\ regen.pc = "returned"
    /\ \E n \in DOMAIN display_schedule :
          /\ display_schedule[n].required >= 1
          /\ ~Understaffed(n)
    /\ \E n \in DOMAIN display_schedule : Understaffed(n)
    /\ teams.new_shifts # <<>>
    /\ Len(teams.new_open_shifts) = 1
    /\ teams.shifts = 1

\* ------------------------------------- /reset-teams-schedule (app.py)
\* for attempt in range(3)
RESET_ATTEMPTS == 3

\* The request has a week, the try block is entered and the counters are
\* set (app.py lines 549-563).
ResetEntered ==
    [pc |-> "loop", attempt |-> 0, total_deleted |-> 0,
     total_deleted_open |-> 0, deleted |-> 0, failed |-> 0, failed_open |-> 0,
     response |-> None]

PassCleanAssignedOnly(failed, failed_open) == failed = 0

\* line 585: failed == 0 and failed_open == 0
PassClean(failed, failed_open) == failed = 0 /\ failed_open = 0

\* lines 600-601: an exception inside the try is answered with 500 and its
\* message only.
ErrorResponse == Some([code |-> 500])

InitReset ==
    /\ EngineIdle
    /\ SubmitIdle
    /\ PublishIdle
    /\ teams \in {TeamsSchedule(a, b) : a, b \in 0..MaxTeamsShifts}
    /\ display_schedule = <<>>
    /\ user_map = {}
    /\ regen = [pc |-> "none"]
    /\ graph_log = <<>>
    /\ reset = ResetEntered
    /\ passes = <<>>

ResetUnchanged ==
    UNCHANGED <<regenVars, submitVars, publishVars, engineVars>>

\* line 566: token = get_graph_token(); a failure raises into line 600.
ResetGetToken ==
    /\ reset.pc = "loop"
    /\ \/ reset' = [reset EXCEPT !.pc = "delete"]
       \/ reset' = [reset EXCEPT !.pc = "responded", !.response = ErrorResponse]
    /\ UNCHANGED <<teams, passes>>
    /\ ResetUnchanged

\* lines 567-572 and graph_scheduler.py lines 102-143: the listing of the
\* shifts can raise (into line 600); each shift of the week is deleted or
\* counted as failed.
ResetDeleteShifts ==
    /\ reset.pc = "delete"
    /\ \/ /\ reset' = [reset EXCEPT !.pc = "responded",
                                    !.response = ErrorResponse]
          /\ UNCHANGED teams
       \/ \E deleted \in 0..teams.shifts :
             /\ teams' = [teams EXCEPT !.shifts = @ - deleted]
             /\ reset' = [reset EXCEPT !.pc = "delete_open",
                                       !.deleted = deleted,
                                       !.failed = teams.shifts - deleted]
    /\ UNCHANGED passes
    /\ ResetUnchanged

\* lines 574-586 and graph_scheduler.py lines 55-101: a listing of the open
\* shifts that fails gives (0, 0); the totals are added up and the loop ends
\* after a pass without failures or after the last attempt.
ResetDeleteOpenShifts ==
    /\ reset.pc = "delete_open"
    /\ \E listed \in BOOLEAN :
       \E deleted_open \in 0..(IF listed THEN teams.open_shifts ELSE 0) :
          LET failed_open ==
                  IF listed THEN teams.open_shifts - deleted_open ELSE 0
          IN  /\ teams' = [teams EXCEPT !.open_shifts = @ - deleted_open]
              /\ passes' = Append(passes,
                     [deleted |-> reset.deleted, failed |-> reset.failed,
                      deleted_open |-> deleted_open,
                      failed_open |-> failed_open])
              /\ reset' = [reset EXCEPT
                     !.total_deleted = @ + reset.deleted,
                     !.total_deleted_open = @ + deleted_open,
                     !.failed_open = failed_open,
                     !.attempt = @ + 1,
                     !.pc = IF PassClean(reset.failed, failed_open)
                               \/ reset.attempt + 1 = RESET_ATTEMPTS
                            THEN "after" ELSE "loop"]
    /\ ResetUnchanged

\* lines 588-599: the message, with the warning when a failure count is
\* left, and the answer.
ResetRespond ==
    /\ reset.pc = "after"
    /\ reset' = [reset EXCEPT !.pc = "responded", !.response =
           Some([code |-> 200, deleted |-> reset.total_deleted,
                 failed |-> reset.failed,
                 deleted_open |-> reset.total_deleted_open,
                 failed_open |-> reset.failed_open,
                 warning |-> reset.failed > 0 \/ reset.failed_open > 0])]
    /\ UNCHANGED <<teams, passes>>
    /\ ResetUnchanged

NextReset ==
    \/ ResetGetToken
    \/ ResetDeleteShifts
    \/ ResetDeleteOpenShifts
    \/ ResetRespond

SpecReset == InitReset /\ [][NextReset]_vars

\* The handler is one thread that goes on as long as it has a step to take;
\* every request to Graph is taken to be answered (requests is called
\* without a timeout).
SpecResetLive == SpecReset /\ WF_vars(NextReset)

\* A pass, as the two delete functions reported it, had no failure.
CleanPass(p) == p.failed = 0 /\ p.failed_open = 0

Responded == reset.pc = "responded"

\* The answer reports the passes performed: the deleted totals are the sums
\* over the passes, the failed counts are those of the last pass, and the
\* warning is there exactly when the last pass had a failure.
AnswerReportsPasses ==
    LET a == reset.response.value
        last == passes[Len(passes)]
    IN  /\ a.code = 200
        /\ passes # <<>>
        /\ a.deleted = SumSeq([n \in DOMAIN passes |-> passes[n].deleted])
        /\ a.deleted_open =
               SumSeq([n \in DOMAIN passes |-> passes[n].deleted_open])
        /\ a.failed = last.failed
        /\ a.failed_open = last.failed_open
        /\ a.warning <=> ~CleanPass(last)

\* At most three passes, and none after a pass without failures.
PassesStopWhenClean ==
    /\ Len(passes) <= RESET_ATTEMPTS
    /\ \A n \in DOMAIN passes : n < Len(passes) => ~CleanPass(passes[n])

\* C24 as stated: at most 3 passes, none after the first pass without
\* failures, and the handler always ends with an answer that carries the
\* deleted totals of the passes performed, the failed counts of the last
\* pass and the warning exactly when that pass had a failure.
C24_AnswerAlwaysReportsPasses ==
    /\ PassesStopWhenClean
    /\ Responded => AnswerReportsPasses

\* C24, amended: at most 3 passes, none after the first pass without
\* failures; the handler always ends with an answer; the answer is either
\* the 200 answer that reports the passes, given after a pass without
\* failures or after the third pass, or, when the token request or the
\* listing of the assigned shifts raised, the 500 answer without counts,
\* given before the third pass was performed.
C24_TerminatesWithReportOrError ==
    /\ [](PassesStopWhenClean
            /\ (Responded =>
                  \/ /\ AnswerReportsPasses
                     /\ \/ CleanPass(passes[Len(passes)])
                        \/ Len(passes) = RESET_ATTEMPTS
                  \/ /\ reset.response = ErrorResponse
                     /\ Len(passes) < RESET_ATTEMPTS))
    /\ <>Responded

\* The handler answered after three passes of which each had a failure,
\* with a shift deleted on the way.
C24_Witness ==
    /\ Responded
    /\ reset.response.value.code = 200
    /\ reset.response.value.warning
    /\ Len(passes) = RESET_ATTEMPTS
    /\ reset.response.value.deleted + reset.response.value.deleted_open >= 1

\* The handler answered after a first pass with a failure and a second
\* without.
C24_WitnessCleanSecondPass ==
    /\ Responded
    /\ reset.response.value.code = 200
    /\ ~reset.response.value.warning
    /\ Len(passes) = 2

====
